---------------------------- MODULE Spec2Model ----------------------------
(***************************************************************************)
(* A model of the tracking API of greek-courier-tracker                    *)
(* (src/src/app/api/track/route.ts): carrier detection, status             *)
(* translation, the two carrier fetchers, trackShipment and the POST and   *)
(* GET handlers.                                                           *)
(*                                                                         *)
(* JavaScript strings are sequences of Unicode code points, so that        *)
(* trim(), toUpperCase(), toLowerCase(), includes() and the regular        *)
(* expressions are computed, not assumed.  Identifiers, display names,     *)
(* colours and error messages, which the code never inspects, are TLA+     *)
(* strings.                                                                *)
(***************************************************************************)
EXTENDS Integers, Sequences, FiniteSets, TLC

(***************************************************************************)
(* Bounds of the model.                                                    *)
(***************************************************************************)
\* the longest run of digits in a generated tracking number
MaxDigits == 13
\* the longest batch a POST request carries
MaxBatch == 2
\* the longest event list a carrier reports
MaxEvents == 2

(***************************************************************************)
(* JavaScript string primitives.                                           *)
(***************************************************************************)
\* WhiteSpace and LineTerminator code points, which String.prototype.trim strips
WhiteSpaceChars ==
  {9, 10, 11, 12, 13, 32, 160, 5760, 8232, 8233, 8239, 8287, 12288, 65279}
    \cup (8192..8202)

IsWhiteSpace(c) == c \in WhiteSpaceChars

IsDigit(c) == c \in 48..57

IsUpperAZ(c) == c \in 65..90

\* Greek capitals with tonos and their small forms
TonosUpper == {902, 904, 905, 906, 908, 910, 911}

TonosLower(c) ==
  CASE c = 902 -> 940
    [] c = 904 -> 941
    [] c = 905 -> 942
    [] c = 906 -> 943
    [] c = 908 -> 972
    [] c = 910 -> 973
    [] c = 911 -> 974

\* letters that have a case (the Latin and Greek ranges the model uses)
IsCased(c) ==
  \/ c \in 65..90
  \/ c \in 97..122
  \/ c \in TonosUpper
  \/ c \in 913..929
  \/ c \in 931..937
  \/ c \in 940..943
  \/ c \in 945..974

\* characters Unicode's Final_Sigma rule skips over
IsCaseIgnorable(c) == c \in {39, 46, 58, 94, 96, 168, 173, 175, 180, 183, 184}

RECURSIVE CasedBefore(_, _)
\* a cased letter precedes position i, case-ignorable characters skipped
CasedBefore(s, i) ==
  IF i < 1 THEN FALSE
  ELSE IF IsCaseIgnorable(s[i]) THEN CasedBefore(s, i - 1)
  ELSE IsCased(s[i])

RECURSIVE CasedAfter(_, _)
\* a cased letter follows position i, case-ignorable characters skipped
CasedAfter(s, i) ==
  IF i > Len(s) THEN FALSE
  ELSE IF IsCaseIgnorable(s[i]) THEN CasedAfter(s, i + 1)
  ELSE IsCased(s[i])

\* the lower-case form of the character at position i of s
LowerAt(s, i) ==
  LET c == s[i] IN
  IF c \in 65..90 THEN c + 32
  ELSE IF c \in TonosUpper THEN TonosLower(c)
  ELSE IF c = 931
    THEN IF CasedBefore(s, i - 1) /\ ~CasedAfter(s, i + 1) THEN 962 ELSE 963
  ELSE IF c \in 913..937 THEN c + 32
  ELSE c

\* String.prototype.toLowerCase
ToLowerCase(s) == [i \in 1..Len(s) |-> LowerAt(s, i)]

\* the upper-case form of a character (Latin letters; the tracking-number
\* alphabet of the model holds no other cased letter)
UpperChar(c) == IF c \in 97..122 THEN c - 32 ELSE c

\* String.prototype.toUpperCase
ToUpperCase(s) == [i \in 1..Len(s) |-> UpperChar(s[i])]

RECURSIVE TrimStart(_)
TrimStart(s) ==
  IF s # <<>> /\ IsWhiteSpace(Head(s)) THEN TrimStart(Tail(s)) ELSE s

RECURSIVE TrimEnd(_)
TrimEnd(s) ==
  IF s # <<>> /\ IsWhiteSpace(s[Len(s)])
    THEN TrimEnd(SubSeq(s, 1, Len(s) - 1))
    ELSE s

\* String.prototype.trim
Trim(s) == TrimEnd(TrimStart(s))

\* String.prototype.includes
Includes(s, sub) ==
  \E k \in 0..(Len(s) - Len(sub)) : SubSeq(s, k + 1, k + Len(sub)) = sub

(***************************************************************************)
(* Regular expressions of the registry: a pattern is a sequence of         *)
(* segments, each a character class repeated lo..hi times, anchored at     *)
(* both ends (^...$).                                                      *)
(***************************************************************************)
Lit(c) == [cls |-> "lit", ch |-> c, lo |-> 1, hi |-> 1]

Digits(lo, hi) == [cls |-> "digit", ch |-> 0, lo |-> lo, hi |-> hi]

Upper(lo, hi) == [cls |-> "upper", ch |-> 0, lo |-> lo, hi |-> hi]

InClass(seg, c) ==
  CASE seg.cls = "lit" -> c = seg.ch
    [] seg.cls = "digit" -> IsDigit(c)
    [] seg.cls = "upper" -> IsUpperAZ(c)

RECURSIVE MatchFrom(_, _, _, _)
\* segments i.. of pattern p match exactly the characters j.. of s
MatchFrom(p, i, s, j) ==
  IF i > Len(p) THEN j = Len(s) + 1
  ELSE \E k \in p[i].lo..p[i].hi :
         /\ j + k - 1 <= Len(s)
         /\ \A m \in j..(j + k - 1) : InClass(p[i], s[m])
         /\ MatchFrom(p, i + 1, s, j + k)

\* RegExp.prototype.test for an anchored pattern
Test(p, s) == MatchFrom(p, 1, s, 1)

\* a mutation of COURIER_ORDER: geniki registered before acs
COURIER_ORDER_GenikiFirst ==
  <<"elta", "geniki", "acs", "speedex", "box_now", "courier_center">>

\* the registry's own order: Object.entries(COURIERS) lists the keys as written
COURIER_ORDER ==
  <<"elta", "acs", "speedex", "box_now", "courier_center", "geniki">>

COURIERS ==
  [elta |->
     [name |-> "ELTA Courier", color |-> "#1e40af",
      patterns |->
        << <<Lit(83), Lit(69), Digits(9, 9), Lit(71), Lit(82)>>,
           <<Lit(69), Lit(76), Digits(9, 9), Lit(71), Lit(82)>>,
           <<Upper(2, 2), Digits(9, 9), Lit(71), Lit(82)>> >>],
   acs |->
     [name |-> "ACS Courier", color |-> "#dc2626",
      patterns |-> << <<Digits(10, 10)>> >>],
   speedex |->
     [name |-> "SpeedEx", color |-> "#f59e0b",
      patterns |->
        << <<Lit(83), Lit(80), Digits(8, 10)>>,
           <<Digits(12, 12)>>,
           <<Digits(9, 9), Upper(2, 2)>> >>],
   box_now |->
     [name |-> "Box Now", color |-> "#10b981",
      patterns |-> << <<Lit(66), Lit(78), Digits(8, 10)>> >>],
   courier_center |->
     [name |-> "Courier Center", color |-> "#8b5cf6",
      patterns |-> << <<Lit(67), Lit(67), Digits(8, 10)>> >>],
   geniki |->
     [name |-> "Geniki Taxydromiki", color |-> "#ec4899",
      patterns |-> << <<Upper(2, 2), Digits(9, 11)>>, <<Digits(10, 12)>> >>]]

\* a mutation of AnyPattern: only a carrier's first pattern is tested
AnyPattern_FirstOnly(patterns, k, tn) == Test(patterns[1], tn)

RECURSIVE AnyPattern(_, _, _)
\* the inner loop of detectCourier: some pattern from index k on matches tn
AnyPattern(patterns, k, tn) ==
  IF k > Len(patterns) THEN FALSE
  ELSE IF Test(patterns[k], tn) THEN TRUE
  ELSE AnyPattern(patterns, k + 1, tn)

RECURSIVE DetectFrom(_, _)
\* the outer loop of detectCourier from registry position k on
DetectFrom(k, tn) ==
  IF k > Len(COURIER_ORDER) THEN "null"
  ELSE IF AnyPattern(COURIERS[COURIER_ORDER[k]].patterns, 1, tn)
    THEN COURIER_ORDER[k]
  ELSE DetectFrom(k + 1, tn)

\* detectCourier: the carrier code, or "null"
detectCourier(trackingNumber) ==
  LET tn == ToUpperCase(Trim(trackingNumber)) IN DetectFrom(1, tn)

(***************************************************************************)
(* Status translation and classification.                                  *)
(***************************************************************************)
\* string literals of the source, as code points
S_Empty == <<>>

\* 'Delivered'
S_Delivered == <<68, 101, 108, 105, 118, 101, 114, 101, 100>>

\* 'Delivered to'
S_DeliveredTo == <<68, 101, 108, 105, 118, 101, 114, 101, 100, 32, 116, 111>>

\* 'In Transit'
S_InTransit == <<73, 110, 32, 84, 114, 97, 110, 115, 105, 116>>

\* 'Shipment Created'
S_ShipmentCreated ==
  <<83, 104, 105, 112, 109, 101, 110, 116, 32, 67, 114, 101, 97, 116, 101, 100>>

\* 'In Depot'
S_InDepot == <<73, 110, 32, 68, 101, 112, 111, 116>>

\* 'At Destination'
S_AtDestination ==
  <<65, 116, 32, 68, 101, 115, 116, 105, 110, 97, 116, 105, 111, 110>>

\* 'Not Found'
S_NotFound == <<78, 111, 116, 32, 70, 111, 117, 110, 100>>

\* 'Error'
S_Error == <<69, 114, 114, 111, 114>>

\* 'Not Implemented'
S_NotImplemented ==
  <<78, 111, 116, 32, 73, 109, 112, 108, 101, 109, 101, 110, 116, 101, 100>>

\* 'Αποστολή παραδόθηκε'
G_Paradothike ==
  <<913, 960, 959, 963, 964, 959, 955, 942, 32,
    960, 945, 961, 945, 948, 972, 952, 951, 954, 949>>

\* 'Αποστολή παραδόθηκε σε'
G_ParadothikeSe == G_Paradothike \o <<32, 963, 949>>

\* 'Αποστολή βρίσκεται σε στάδιο μεταφοράς'
G_Metaforas ==
  <<913, 960, 959, 963, 964, 959, 955, 942, 32,
    946, 961, 943, 963, 954, 949, 964, 945, 953, 32, 963, 949, 32,
    963, 964, 940, 948, 953, 959, 32,
    956, 949, 964, 945, 966, 959, 961, 940, 962>>

\* 'Δημιουργία ΣΥ.ΔΕ.ΤΑ.'
G_Dimiourgia ==
  <<916, 951, 956, 953, 959, 965, 961, 947, 943, 945, 32,
    931, 933, 46, 916, 917, 46, 932, 913, 46>>

\* 'Η ΑΠΟΣΤΟΛΗ ΠΑΡΑΔΟΘΗΚΕ'
G_CapsParadothike ==
  <<919, 32, 913, 928, 927, 931, 932, 927, 923, 919, 32,
    928, 913, 929, 913, 916, 927, 920, 919, 922, 917>>

\* 'delivered'
K_delivered == <<100, 101, 108, 105, 118, 101, 114, 101, 100>>

\* 'in-depot'
K_inDepot == <<105, 110, 45, 100, 101, 112, 111, 116>>

\* 'final-destination'
K_finalDestination ==
  <<102, 105, 110, 97, 108, 45, 100, 101, 115, 116, 105, 110, 97, 116, 105, 111, 110>>

\* the phrase table, in declaration order
STATUS_TRANSLATIONS ==
  << [greek |-> G_Paradothike, english |-> S_Delivered],
     [greek |-> G_ParadothikeSe, english |-> S_DeliveredTo],
     [greek |-> G_Metaforas, english |-> S_InTransit],
     [greek |-> G_Dimiourgia, english |-> S_ShipmentCreated],
     [greek |-> G_CapsParadothike, english |-> S_Delivered],
     [greek |-> K_delivered, english |-> S_Delivered],
     [greek |-> K_inDepot, english |-> S_InDepot],
     [greek |-> K_finalDestination, english |-> S_AtDestination] >>

RECURSIVE TranslateFrom(_, _, _)
\* the loop of translateStatus from table position k on
TranslateFrom(k, status, statusLower) ==
  IF k > Len(STATUS_TRANSLATIONS) THEN status
  ELSE LET greek == STATUS_TRANSLATIONS[k].greek IN
       IF \/ ToLowerCase(greek) = statusLower
          \/ Includes(statusLower, ToLowerCase(greek))
         THEN STATUS_TRANSLATIONS[k].english
         ELSE TranslateFrom(k + 1, status, statusLower)

\* a mutation of translateStatus: the status is compared as written
translateStatus_CaseSensitive(status) == TranslateFrom(1, status, status)

\* translateStatus
translateStatus(status) == TranslateFrom(1, status, ToLowerCase(status))

\* 'παραδόθηκ'
K_paradothik == <<960, 945, 961, 945, 948, 972, 952, 951, 954>>

\* 'transit'
K_transit == <<116, 114, 97, 110, 115, 105, 116>>

\* 'μεταφοράς'
K_metaforas == <<956, 949, 964, 945, 966, 959, 961, 940, 962>>

\* 'created'
K_created == <<99, 114, 101, 97, 116, 101, 100>>

\* 'δημιουργία'
K_dimiourgia == <<948, 951, 956, 953, 959, 965, 961, 947, 943, 945>>

\* a mutation of getStatusCategory: the transit keywords are tried first
getStatusCategory_TransitFirst(status) ==
  LET statusLower == ToLowerCase(status) IN
  IF Includes(statusLower, K_transit) \/ Includes(statusLower, K_metaforas)
    THEN "in_transit"
  ELSE IF Includes(statusLower, K_delivered) \/ Includes(statusLower, K_paradothik)
    THEN "delivered"
  ELSE IF Includes(statusLower, K_created) \/ Includes(statusLower, K_dimiourgia)
    THEN "created"
  ELSE "unknown"

\* getStatusCategory
getStatusCategory(status) ==
  LET statusLower == ToLowerCase(status) IN
  IF Includes(statusLower, K_delivered) \/ Includes(statusLower, K_paradothik)
    THEN "delivered"
  ELSE IF Includes(statusLower, K_transit) \/ Includes(statusLower, K_metaforas)
    THEN "in_transit"
  ELSE IF Includes(statusLower, K_created) \/ Includes(statusLower, K_dimiourgia)
    THEN "created"
  ELSE "unknown"

(***************************************************************************)
(* TrackingResult.  An optional field (latestEvent, errorMessage) is a     *)
(* sequence: empty when the property is absent or undefined, and           *)
(* otherwise holding its one value.                                        *)
(***************************************************************************)
Absent == <<>>

Some(v) == <<v>>

\* a mutation of FirstOf: events[events.length - 1]
FirstOf_Last(events) ==
  IF events = <<>> THEN Absent ELSE Some(events[Len(events)])

\* events[0]: undefined when the list is empty
FirstOf(events) == IF events = <<>> THEN Absent ELSE Some(events[1])

\* the value a catch clause binds: an Error with its message, or another value
ErrorOf(msg) == [isError |-> TRUE, message |-> msg]

NonError == [isError |-> FALSE, message |-> ""]

\* error instanceof Error ? error.message : 'Unknown error'
MessageOf(error) == IF error.isError THEN error.message ELSE "Unknown error"

\* completion of a try block: a returned value or a thrown error
Return(v) == [thrown |-> FALSE, value |-> v, error |-> NonError]

Throw(e) == [thrown |-> TRUE, value |-> <<>>, error |-> e]

(***************************************************************************)
(* Carrier responses.  A network call either rejects with an error or      *)
(* delivers a response text; the text may start with a byte-order mark     *)
(* and is JSON that does not parse, the JSON value null, or an object.     *)
(***************************************************************************)
SyntaxError == ErrorOf("Unexpected token in JSON")

TypeError == ErrorOf("Cannot read properties of null")

\* a mutation of CleanText: the byte-order mark is left in place
CleanText_Keep(text) == text

\* text.startsWith(BOM) ? text.slice(1) : text
CleanText(text) == [text EXCEPT !.bom = FALSE]

\* JSON.parse: a text that still starts with a byte-order mark does not parse
JSONParse(text) ==
  IF text.bom \/ text.json = "invalid" THEN Throw(SyntaxError)
  ELSE Return(text)

\* the try block of trackELTA
EltaBody(trackingNumber, o) ==
  LET courier == COURIERS.elta IN
  IF o.kind = "reject" THEN Throw(o.error)
  ELSE
    LET parsed == JSONParse(CleanText(o.text))
        data == parsed.value
        notFound ==
          [success |-> TRUE, trackingNumber |-> trackingNumber,
           courier |-> "elta", courierName |-> courier.name,
           courierColor |-> courier.color, status |-> S_NotFound,
           statusCategory |-> "unknown", events |-> <<>>,
           latestEvent |-> Absent, errorMessage |-> Absent]
    IN
    IF parsed.thrown THEN parsed
    ELSE IF data.json = "null" THEN Throw(TypeError)
    ELSE IF data.status = 1
              /\ data.hasResult
              /\ data.key = trackingNumber
              /\ data.entryStatus = 1
      THEN
        LET events == data.events
            latestEvent == FirstOf(events)
            translatedStatus ==
              translateStatus(IF latestEvent = Absent THEN S_Empty
                              ELSE latestEvent[1].status)
        IN Return(
          [success |-> TRUE, trackingNumber |-> trackingNumber,
           courier |-> "elta", courierName |-> courier.name,
           courierColor |-> courier.color, status |-> translatedStatus,
           statusCategory |-> getStatusCategory(translatedStatus),
           events |-> events, latestEvent |-> latestEvent,
           errorMessage |-> Absent])
    ELSE Return(notFound)

\* a mutation of trackELTA: the try block without its catch clause
trackELTA_NoCatch(trackingNumber, o) == EltaBody(trackingNumber, o)

\* trackELTA: the try block, and the catch clause for what it throws;
\* the value is the function's own completion
trackELTA(trackingNumber, o) ==
  LET courier == COURIERS.elta
      body == EltaBody(trackingNumber, o)
  IN
  IF body.thrown
    THEN Return(
         [success |-> FALSE, trackingNumber |-> trackingNumber,
          courier |-> "elta", courierName |-> courier.name,
          courierColor |-> courier.color, status |-> S_Error,
          statusCategory |-> "error", events |-> <<>>,
          latestEvent |-> Absent,
          errorMessage |-> Some(MessageOf(body.error))])
    ELSE body

RECURSIVE IndexOfT(_, _)
\* the position of the first 'T' of s from position i on, 0 when there is none
IndexOfT(s, i) ==
  IF i > Len(s) THEN 0
  ELSE IF s[i] = 84 THEN i
  ELSE IndexOfT(s, i + 1)

\* createTime?.split('T')[0] || ''
DatePart(createTime) ==
  IF createTime = Absent THEN S_Empty
  ELSE LET ct == createTime[1]
           t == IndexOfT(ct, 1)
       IN IF t = 0 THEN ct ELSE SubSeq(ct, 1, t - 1)

\* createTime?.split('T')[1]?.slice(0, 8) || ''
TimePart(createTime) ==
  IF createTime = Absent THEN S_Empty
  ELSE LET ct == createTime[1]
           t == IndexOfT(ct, 1)
       IN IF t = 0 THEN S_Empty
          ELSE LET rest == SubSeq(ct, t + 1, Len(ct))
                   t2 == IndexOfT(rest, 1)
                   piece == IF t2 = 0 THEN rest ELSE SubSeq(rest, 1, t2 - 1)
               IN SubSeq(piece, 1, IF Len(piece) < 8 THEN Len(piece) ELSE 8)

\* the mapping of one Box Now event
MapBoxNowEvent(e) ==
  [date |-> DatePart(e.createTime),
   time |-> TimePart(e.createTime),
   place |-> e.locationDisplayName,
   status |-> e.type]

\* the try block of trackBoxNow
BoxNowBody(trackingNumber, o) ==
  LET courier == COURIERS.box_now IN
  IF o.kind = "reject" THEN Throw(o.error)
  ELSE
    LET parsed == JSONParse(o.text)
        data == parsed.value
    IN
    IF parsed.thrown THEN parsed
    ELSE IF data.json = "null" THEN Throw(TypeError)
    ELSE
      LET parcels == data.data IN
      IF Len(parcels) > 0
        THEN
          LET parcel == parcels[1]
              events ==
                [k \in 1..Len(parcel.events) |-> MapBoxNowEvent(parcel.events[k])]
              state == parcel.state
              translatedStatus == translateStatus(state)
          IN Return(
            [success |-> TRUE, trackingNumber |-> trackingNumber,
             courier |-> "box_now", courierName |-> courier.name,
             courierColor |-> courier.color, status |-> translatedStatus,
             statusCategory |->
               IF state = K_delivered THEN "delivered" ELSE "in_transit",
             events |-> events, latestEvent |-> FirstOf(events),
             errorMessage |-> Absent])
        ELSE Return(
            [success |-> TRUE, trackingNumber |-> trackingNumber,
             courier |-> "box_now", courierName |-> courier.name,
             courierColor |-> courier.color, status |-> S_NotFound,
             statusCategory |-> "unknown", events |-> <<>>,
             latestEvent |-> Absent, errorMessage |-> Absent])

\* trackBoxNow: the try block, and the catch clause for what it throws
trackBoxNow(trackingNumber, o) ==
  LET courier == COURIERS.box_now
      body == BoxNowBody(trackingNumber, o)
  IN
  IF body.thrown
    THEN Return(
         [success |-> FALSE, trackingNumber |-> trackingNumber,
          courier |-> "box_now", courierName |-> courier.name,
          courierColor |-> courier.color, status |-> S_Error,
          statusCategory |-> "error", events |-> <<>>,
          latestEvent |-> Absent,
          errorMessage |-> Some(MessageOf(body.error))])
    ELSE body

(***************************************************************************)
(* trackShipment, up to the network call of the fetcher it dispatches to.  *)
(***************************************************************************)
\* carriers whose case of the switch calls a fetcher
HasFetcher(courierCode) == courierCode \in {"elta", "box_now"}

\* a mutation of UndetectedResult: the failure is classified "unknown"
UndetectedResult_Unknown(trackingNumber) ==
  [success |-> FALSE, trackingNumber |-> trackingNumber,
   courier |-> "unknown", courierName |-> "Unknown Courier",
   courierColor |-> "#6b7280", status |-> S_Error,
   statusCategory |-> "unknown", events |-> <<>>, latestEvent |-> Absent,
   errorMessage |->
     Some("Could not detect courier from tracking number format")]

\* the result when no carrier is detected
UndetectedResult(trackingNumber) ==
  [success |-> FALSE, trackingNumber |-> trackingNumber,
   courier |-> "unknown", courierName |-> "Unknown Courier",
   courierColor |-> "#6b7280", status |-> S_Error,
   statusCategory |-> "error", events |-> <<>>, latestEvent |-> Absent,
   errorMessage |->
     Some("Could not detect courier from tracking number format")]

\* a mutation of NotImplementedResult: reported as a confirmed absence
NotImplementedResult_NotFound(trackingNumber, courierCode) ==
  [success |-> TRUE, trackingNumber |-> trackingNumber,
   courier |-> courierCode, courierName |-> COURIERS[courierCode].name,
   courierColor |-> COURIERS[courierCode].color,
   status |-> S_NotFound, statusCategory |-> "unknown",
   events |-> <<>>, latestEvent |-> Absent, errorMessage |-> Absent]

\* the default case of the switch
NotImplementedResult(trackingNumber, courierCode) ==
  [success |-> FALSE, trackingNumber |-> trackingNumber,
   courier |-> courierCode, courierName |-> COURIERS[courierCode].name,
   courierColor |-> COURIERS[courierCode].color,
   status |-> S_NotImplemented, statusCategory |-> "error",
   events |-> <<>>, latestEvent |-> Absent,
   errorMessage |->
     Some("Tracking for " \o courierCode \o " is not yet implemented")]

\* trackShipment when it makes no network call
LocalResult(trackingNumber) ==
  LET courierCode == detectCourier(trackingNumber) IN
  IF courierCode = "null" THEN UndetectedResult(trackingNumber)
  ELSE NotImplementedResult(trackingNumber, courierCode)

\* the result of the POST loop for a number that is too short
InvalidFormatResult(normalizedNumber) ==
  [success |-> FALSE, trackingNumber |-> normalizedNumber,
   courier |-> "unknown", courierName |-> "Unknown",
   courierColor |-> "#6b7280", status |-> S_Error,
   statusCategory |-> "error", events |-> <<>>, latestEvent |-> Absent,
   errorMessage |-> Some("Invalid tracking number format")]

(***************************************************************************)
(* Inputs of the model.                                                    *)
(***************************************************************************)
\* '1234567890123...': the first n digits
DigitRun(n) == [i \in 1..n |-> 48 + (i % 10)]

\* two-letter prefixes: none, SE, EL, AB, SP, BN, CC, GT
Prefixes ==
  {<<>>, <<83, 69>>, <<69, 76>>, <<65, 66>>, <<83, 80>>, <<66, 78>>,
   <<67, 67>>, <<71, 84>>}

\* suffixes: none, GR, AB
Suffixes == {<<>>, <<71, 82>>, <<65, 66>>}

\* a tracking number as typed: in lower case, padded with white space
LowerAZ(s) == [i \in 1..Len(s) |-> IF s[i] \in 65..90 THEN s[i] + 32 ELSE s[i]]

Padded(s) == <<32>> \o s \o <<32, 10>>

Variants(s) == {s, LowerAZ(s), Padded(s), Padded(LowerAZ(s))}

\* the arguments detectCourier is applied to
DetectInputs ==
  UNION {Variants(p \o DigitRun(n) \o x) :
           p \in Prefixes, n \in 0..MaxDigits, x \in Suffixes}
    \cup {<<83, 69, 32>> \o DigitRun(9) \o <<71, 82>>,
          DigitRun(5) \o <<45>> \o DigitRun(5),
          <<65, 66, 67, 68, 69, 70, 71, 72>>}

\* the tracking numbers requests carry
\* 'AB', ' ab12345 ', 'SE101046219GR', ' se101046219gr ', 'bn1234567890 ',
\* '1234567890', '123456789012', 'CC12345678', '12345678901', 'ABCDEFGH'
SE101046219GR == <<83, 69, 49, 48, 49, 48, 52, 54, 50, 49, 57, 71, 82>>

RequestNumbers ==
  {<<65, 66>>,
   <<32, 97, 98>> \o DigitRun(5) \o <<32>>,
   SE101046219GR,
   Padded(LowerAZ(SE101046219GR)),
   <<98, 110>> \o DigitRun(10) \o <<32>>,
   DigitRun(10),
   DigitRun(12),
   <<67, 67>> \o DigitRun(8),
   DigitRun(11),
   <<65, 66, 67, 68, 69, 70, 71, 72>>}

\* JSON values an element of the request's list can be
Str(s) == [t |-> "string", s |-> s]

NonStrings == {[t |-> "number", s |-> <<>>], [t |-> "null", s |-> <<>>]}

Elements == {Str(s) : s \in RequestNumbers} \cup NonStrings

RECURSIVE SeqsUpTo(_, _)
\* the sequences over S of length at most n
SeqsUpTo(S, n) ==
  IF n = 0 THEN {<<>>}
  ELSE LET shorter == SeqsUpTo(S, n - 1) IN
       shorter \cup {Append(q, x) : q \in {r \in shorter : Len(r) = n - 1}, x \in S}

\* the bodies of POST requests
PostBodies ==
  {[kind |-> "invalid", list |-> <<>>], [kind |-> "no_list", list |-> <<>>]}
    \cup {[kind |-> "list", list |-> l] : l \in SeqsUpTo(Elements, MaxBatch)}

\* the 'number' query parameter of GET requests: absent, or a string
GetParams == {Absent} \cup {Some(s) : s \in RequestNumbers \cup {<<>>}}

\* status texts carriers report
\* 'ΑΠΟΣΤΟΛΉ ΠΑΡΑΔΌΘΗΚΕ'
G_UpperParadothike ==
  <<913, 928, 927, 931, 932, 927, 923, 905, 32,
    928, 913, 929, 913, 916, 908, 920, 919, 922, 917>>

\* 'ΑΠΟΣΤΟΛΉ ΒΡΊΣΚΕΤΑΙ ΣΕ ΣΤΆΔΙΟ ΜΕΤΑΦΟΡΆΣ'
G_UpperMetaforas ==
  <<913, 928, 927, 931, 932, 927, 923, 905, 32,
    914, 929, 906, 931, 922, 917, 932, 913, 921, 32, 931, 917, 32,
    931, 932, 902, 916, 921, 927, 32,
    924, 917, 932, 913, 934, 927, 929, 902, 931>>

\* 'Παραλαβή'
G_Paralavi == <<928, 945, 961, 945, 955, 945, 946, 942>>

\* 'DELIVERED', 'In-Depot', 'pending'
K_UpperDelivered == <<68, 69, 76, 73, 86, 69, 82, 69, 68>>

K_MixedInDepot == <<73, 110, 45, 68, 101, 112, 111, 116>>

K_pending == <<112, 101, 110, 100, 105, 110, 103>>

\* ' - ' and 'x'
Affixes == {<<>>, <<32, 45, 32>>, <<120>>}

Phrases == {STATUS_TRANSLATIONS[k].greek : k \in 1..Len(STATUS_TRANSLATIONS)}

\* the arguments translateStatus is applied to
StatusInputs ==
  {a \o p \o b :
     a \in Affixes, b \in Affixes,
     p \in Phrases \cup {ToLowerCase(q) : q \in Phrases}
         \cup {G_UpperParadothike, G_UpperMetaforas, G_Paralavi,
               K_UpperDelivered, K_MixedInDepot, K_pending, <<>>}}
    \cup {K_inDepot \o <<32>> \o K_delivered,
          K_finalDestination \o <<32>> \o G_Metaforas}

\* the keywords of getStatusCategory, by the category they stand for
DeliveredKeywords == {K_delivered, K_paradothik}

TransitKeywords == {K_transit, K_metaforas}

CreatedKeywords == {K_created, K_dimiourgia}

Keywords == DeliveredKeywords \cup TransitKeywords \cup CreatedKeywords

\* the arguments getStatusCategory is applied to: a keyword as written or in
\* capitals, alone or inside a text; two keywords in one text, in both orders;
\* and texts with no keyword
CategoryInputs ==
  {a \o k \o b :
     a \in Affixes, b \in Affixes,
     k \in Keywords \cup {ToUpperCase(q) : q \in Keywords}}
    \cup {k \o <<32>> \o l : k \in Keywords, l \in Keywords}
    \cup {S_Error, S_NotFound, K_pending, G_Paralavi, <<>>}
    \cup {STATUS_TRANSLATIONS[k].english : k \in 1..Len(STATUS_TRANSLATIONS)}

\* the event statuses and parcel states of the carrier responses
ReportedStatuses == {G_Paradothike, G_Paralavi}

ReportedStates == {K_delivered, K_MixedInDepot}

EltaEvent(st) ==
  [date |-> <<50, 48, 50, 52>>, time |-> <<49, 48, 58, 50, 48>>,
   place |-> "ATHENS", status |-> st]

\* an ELTA history of n events, the latest of them with status st
EltaHistory(st, n) ==
  [i \in 1..n |-> EltaEvent(IF i = 1 THEN st ELSE G_Metaforas)]

EltaHistories ==
  {<<>>} \cup {EltaHistory(st, n) : st \in ReportedStatuses, n \in 1..MaxEvents}

\* '2024-01-02T10:20:30.000Z'
CreateTime ==
  <<50, 48, 50, 52, 45, 48, 49, 45, 48, 50, 84,
    49, 48, 58, 50, 48, 58, 51, 48, 46, 48, 48, 48, 90>>

BoxNowEvents ==
  {[createTime |-> Some(CreateTime), locationDisplayName |-> "Locker 12",
    type |-> K_inDepot],
   [createTime |-> Absent, locationDisplayName |-> "", type |-> <<>>]}

\* a Box Now history of n events, the latest of them e
BoxNowHistory(e, n) ==
  [i \in 1..n |->
     IF i = 1 THEN e
     ELSE [createTime |-> Some(CreateTime), locationDisplayName |-> "Hub",
           type |-> K_finalDestination]]

BoxNowHistories ==
  {<<>>} \cup {BoxNowHistory(e, n) : e \in BoxNowEvents, n \in 1..MaxEvents}

Rejections ==
  {[kind |-> "reject", error |-> e] : e \in {ErrorOf("fetch failed"), NonError}}

\* what the ELTA call for trackingNumber can deliver: the response's result
\* object is keyed by the number as sent, or by the number trimmed
EltaOutcomes(trackingNumber) ==
  Rejections \cup
  {[kind |-> "response", error |-> NonError, text |-> t] : t \in
     {[bom |-> FALSE, json |-> j, status |-> 0, hasResult |-> FALSE,
       key |-> trackingNumber, entryStatus |-> 0, events |-> <<>>] :
        j \in {"invalid", "null"}}
     \cup
     {[bom |-> b, json |-> "object", status |-> 0, hasResult |-> FALSE,
       key |-> trackingNumber, entryStatus |-> 0, events |-> <<>>] :
        b \in BOOLEAN}
     \cup
     {[bom |-> FALSE, json |-> "object", status |-> 1, hasResult |-> FALSE,
       key |-> trackingNumber, entryStatus |-> 0, events |-> <<>>]}
     \cup
     {[bom |-> FALSE, json |-> "object", status |-> 1, hasResult |-> TRUE,
       key |-> k, entryStatus |-> 0, events |-> <<>>] :
        k \in {trackingNumber, Trim(trackingNumber)}}
     \cup
     {[bom |-> FALSE, json |-> "object", status |-> 1, hasResult |-> TRUE,
       key |-> k, entryStatus |-> 1, events |-> ev] :
        k \in {trackingNumber, Trim(trackingNumber)}, ev \in EltaHistories}
     \cup
     {[bom |-> TRUE, json |-> "object", status |-> 1, hasResult |-> TRUE,
       key |-> trackingNumber, entryStatus |-> 1,
       events |-> EltaHistory(G_Paradothike, 1)]}}

\* what the Box Now call can deliver (response.json() drops a byte-order mark)
BoxNowOutcomes ==
  Rejections \cup
  {[kind |-> "response", error |-> NonError, text |-> t] : t \in
     {[bom |-> FALSE, json |-> j, data |-> <<>>] : j \in {"invalid", "null", "object"}}
     \cup
     {[bom |-> FALSE, json |-> "object",
       data |-> <<[state |-> <<>>, events |-> <<>>]>>]}
     \cup
     {[bom |-> FALSE, json |-> "object",
       data |-> <<[state |-> st, events |-> ev]>>] :
        st \in ReportedStates, ev \in BoxNowHistories}}

Outcomes(courierCode, trackingNumber) ==
  IF courierCode = "elta" THEN EltaOutcomes(trackingNumber) ELSE BoxNowOutcomes

(***************************************************************************)
(* The handlers.                                                           *)
(***************************************************************************)
VARIABLES
  pc,              \* "idle", "post_loop", "post_await", "get_await", "done";
                   \*   "fn", "returned" for a function applied on its own
  request,         \* the request being handled
  idx,             \* POST: the position of the loop in trackingNumbers
  results,         \* POST: the results array
  pending,         \* the network call awaited: its carrier and tracking number
  netCalls,        \* history: the network calls made, with the element they serve
  fetchLog,        \* history: the fetcher calls completed
  response,        \* the HTTP response
  fnName,          \* a function applied on its own: its name,
  fnArg,           \*   its argument,
  fnCourier,       \*   detectCourier's value,
  fnStatus,        \*   translateStatus' value,
  fnCategory,      \*   getStatusCategory's value
  par,             \* the batch run concurrently: one task per element
  trackingNumbers, \* page: the tracking-number list
  inputValue,      \* page: the text of the input field
  uiResults,       \* page: the results displayed (the state 'results')
  loading,         \* page: a fetch is in flight
  error,           \* page: the error shown, or Absent
  inFlight         \* page: the trackingNumbers the request in flight carries

vars ==
  <<pc, request, idx, results, pending, netCalls, fetchLog, response,
    fnName, fnArg, fnCourier, fnStatus, fnCategory, par,
    trackingNumbers, inputValue, uiResults, loading, error, inFlight>>

fnVars == <<fnName, fnArg, fnCourier, fnStatus, fnCategory>>

pageVars == <<trackingNumbers, inputValue, uiResults, loading, error, inFlight>>

\* what the handlers of the page leave alone
uiOtherVars ==
  <<pc, request, idx, results, pending, netCalls, fetchLog, response,
    fnName, fnArg, fnCourier, fnStatus, fnCategory, par>>

\* what the handlers of the route leave alone
otherVars == <<fnVars, par, pageVars>>

NoRequest == [method |-> "NONE", body |-> [kind |-> "none", list |-> <<>>],
              number |-> Absent]

NoPending == [courier |-> "none", trackingNumber |-> <<>>]

NoResponse == [status |-> 0, kind |-> "none", results |-> <<>>, error |-> ""]

\* NextResponse.json({ error }, { status })
ErrorResponse(status, msg) ==
  [status |-> status, kind |-> "error", results |-> <<>>, error |-> msg]

\* NextResponse.json({ results })
ResultsResponse(rs) ==
  [status |-> 200, kind |-> "results", results |-> rs, error |-> ""]

\* NextResponse.json(result)
ResultResponse(r) ==
  [status |-> 200, kind |-> "result", results |-> <<r>>, error |-> ""]

Init ==
  /\ pc = "idle"
  /\ request = NoRequest
  /\ idx = 0
  /\ results = <<>>
  /\ pending = NoPending
  /\ netCalls = <<>>
  /\ fetchLog = <<>>
  /\ response = NoResponse
  /\ fnName = "none"
  /\ fnArg = <<>>
  /\ fnCourier = "none"
  /\ fnStatus = <<>>
  /\ fnCategory = "none"
  /\ par = <<>>
  /\ trackingNumbers = <<>>
  /\ inputValue = <<>>
  /\ uiResults = <<>>
  /\ loading = FALSE
  /\ error = Absent
  /\ inFlight = <<>>

\* trackingNumber.trim().toUpperCase() of the POST loop
NormalizedNumber(trackingNumber) == ToUpperCase(Trim(trackingNumber))

\* trackingNumber.toUpperCase() of GET
GetNumber(trackingNumber) == ToUpperCase(trackingNumber)

\* normalizedNumber.length < 8
TooShort(normalizedNumber) == Len(normalizedNumber) < 8

\* a mutation of Push: results.unshift(result)
Push_Unshift(rs, r) == <<r>> \o rs

\* results.push(result)
Push(rs, r) == Append(rs, r)

\* POST, after a result is pushed: the next iteration, or the response
PostContinue(rs, i) ==
  /\ results' = rs
  /\ idx' = i
  /\ pending' = NoPending
  /\ IF i > Len(request.body.list)
       THEN pc' = "done" /\ response' = ResultsResponse(rs)
       ELSE pc' = "post_loop" /\ response' = response

\* the catch clause of POST
PostCatch ==
  /\ pc' = "done"
  /\ response' = ErrorResponse(500, "Failed to process tracking request")
  /\ pending' = NoPending
  /\ UNCHANGED <<idx, results>>

\* POST: request.json() and the validation of trackingNumbers
POST(body) ==
  /\ pc = "idle"
  /\ request' = [method |-> "POST", body |-> body, number |-> Absent]
  /\ UNCHANGED <<netCalls, fetchLog, otherVars>>
  /\ IF body.kind = "invalid" THEN PostCatch
     ELSE IF body.kind = "no_list" \/ Len(body.list) = 0
       THEN /\ pc' = "done"
            /\ response' =
                 ErrorResponse(400, "Please provide at least one tracking number")
            /\ UNCHANGED <<idx, results, pending>>
     ELSE /\ pc' = "post_loop"
          /\ idx' = 1
          /\ results' = <<>>
          /\ UNCHANGED <<pending, response>>

\* POST: one iteration of the loop, up to the fetcher's network call
PostIterate ==
  /\ pc = "post_loop"
  /\ UNCHANGED <<request, fetchLog, otherVars>>
  /\ LET trackingNumber == request.body.list[idx] IN
     IF trackingNumber.t # "string"
       THEN PostCatch /\ UNCHANGED netCalls
     ELSE
       LET normalizedNumber == NormalizedNumber(trackingNumber.s)
           courierCode == detectCourier(normalizedNumber)
       IN
       IF TooShort(normalizedNumber)
         THEN /\ PostContinue(
                   Push(results, InvalidFormatResult(normalizedNumber)), idx + 1)
              /\ UNCHANGED netCalls
       ELSE IF HasFetcher(courierCode)
         THEN /\ pc' = "post_await"
              /\ pending' =
                   [courier |-> courierCode, trackingNumber |-> normalizedNumber]
              /\ netCalls' =
                   Append(netCalls,
                          [index |-> idx, courier |-> courierCode,
                           trackingNumber |-> normalizedNumber])
              /\ UNCHANGED <<idx, results, response>>
       ELSE /\ PostContinue(Push(results, LocalResult(normalizedNumber)), idx + 1)
            /\ UNCHANGED netCalls

\* the cases of the switch that call a fetcher, given what its call delivers
FetcherFor(courierCode, trackingNumber, o) ==
  IF courierCode = "elta" THEN trackELTA(trackingNumber, o)
  ELSE trackBoxNow(trackingNumber, o)

\* a mutation of Fetcher: the value of the call before is kept and returned
Fetcher_Stale(o) ==
  IF fetchLog # <<>> THEN fetchLog[Len(fetchLog)].completion
  ELSE FetcherFor(pending.courier, pending.trackingNumber, o)

\* the fetcher called for the pending network call, given what the call delivers
Fetcher(o) == FetcherFor(pending.courier, pending.trackingNumber, o)

Logged(i, o, done) ==
  Append(fetchLog,
         [index |-> i, courier |-> pending.courier,
          trackingNumber |-> pending.trackingNumber,
          outcome |-> o, completion |-> done])

\* POST: the network call completes, the fetcher returns, the result is pushed
PostFetched ==
  /\ pc = "post_await"
  /\ \E o \in Outcomes(pending.courier, pending.trackingNumber) :
       LET done == Fetcher(o) IN
       /\ fetchLog' = Logged(idx, o, done)
       /\ IF done.thrown THEN PostCatch
          ELSE PostContinue(Push(results, done.value), idx + 1)
  /\ UNCHANGED <<request, netCalls, otherVars>>

\* GET: the query parameter, and trackShipment up to the network call
GET(number) ==
  /\ pc = "idle"
  /\ request' = [method |-> "GET", body |-> NoRequest.body, number |-> number]
  /\ UNCHANGED <<idx, results, fetchLog, otherVars>>
  /\ IF number = Absent \/ number = Some(<<>>)
       THEN /\ pc' = "done"
            /\ response' = ErrorResponse(400, "Please provide a tracking number")
            /\ UNCHANGED <<pending, netCalls>>
     ELSE
       LET trackingNumber == GetNumber(number[1])
           courierCode == detectCourier(trackingNumber)
       IN
       IF HasFetcher(courierCode)
         THEN /\ pc' = "get_await"
              /\ pending' =
                   [courier |-> courierCode, trackingNumber |-> trackingNumber]
              /\ netCalls' =
                   Append(netCalls,
                          [index |-> 1, courier |-> courierCode,
                           trackingNumber |-> trackingNumber])
              /\ UNCHANGED response
         ELSE /\ pc' = "done"
              /\ response' = ResultResponse(LocalResult(trackingNumber))
              /\ UNCHANGED <<pending, netCalls>>

\* GET: the network call completes, the fetcher returns, the result is sent;
\* GET has no catch clause, and the framework answers 500 for what it throws
GetFetched ==
  /\ pc = "get_await"
  /\ \E o \in Outcomes(pending.courier, pending.trackingNumber) :
       LET done == Fetcher(o) IN
       /\ fetchLog' = Logged(1, o, done)
       /\ response' =
            IF done.thrown THEN ErrorResponse(500, "Internal Server Error")
            ELSE ResultResponse(done.value)
  /\ pc' = "done"
  /\ pending' = NoPending
  /\ UNCHANGED <<request, idx, results, netCalls, otherVars>>

Next ==
  \/ \E body \in PostBodies : POST(body)
  \/ PostIterate
  \/ PostFetched
  \/ \E number \in GetParams : GET(number)
  \/ GetFetched

Spec == Init /\ [][Next]_vars

(***************************************************************************)
(* The functions applied on their own.                                     *)
(***************************************************************************)
InitFn ==
  /\ pc = "fn"
  /\ request = NoRequest
  /\ idx = 0
  /\ results = <<>>
  /\ pending = NoPending
  /\ netCalls = <<>>
  /\ fetchLog = <<>>
  /\ response = NoResponse
  /\ fnName = "none"
  /\ fnArg = <<>>
  /\ fnCourier = "none"
  /\ fnStatus = <<>>
  /\ fnCategory = "none"
  /\ par = <<>>
  /\ trackingNumbers = <<>>
  /\ inputValue = <<>>
  /\ uiResults = <<>>
  /\ loading = FALSE
  /\ error = Absent
  /\ inFlight = <<>>

\* the variables of the handlers and of the page, without par and with it
fnHandlerVarsButPar ==
  <<request, idx, results, pending, netCalls, fetchLog, response, pageVars>>

fnHandlerVars == <<fnHandlerVarsButPar, par>>

\* a POST is answered with a results list
IsBatchAnswered == request.method = "POST" /\ response.kind = "results"

CallDetectCourier(trackingNumber) ==
  /\ pc = "fn"
  /\ fnName' = "detectCourier"
  /\ fnArg' = trackingNumber
  /\ fnCourier' = detectCourier(trackingNumber)
  /\ fnStatus' = <<>>
  /\ fnCategory' = "none"
  /\ pc' = "returned"
  /\ UNCHANGED fnHandlerVars

CallTranslateStatus(status) ==
  /\ pc = "fn"
  /\ fnName' = "translateStatus"
  /\ fnArg' = status
  /\ fnCourier' = "none"
  /\ fnStatus' = translateStatus(status)
  /\ fnCategory' = "none"
  /\ pc' = "returned"
  /\ UNCHANGED fnHandlerVars

CallGetStatusCategory(status) ==
  /\ pc = "fn"
  /\ fnName' = "getStatusCategory"
  /\ fnArg' = status
  /\ fnCourier' = "none"
  /\ fnStatus' = <<>>
  /\ fnCategory' = getStatusCategory(status)
  /\ pc' = "returned"
  /\ UNCHANGED fnHandlerVars

NextFn ==
  \/ \E trackingNumber \in DetectInputs : CallDetectCourier(trackingNumber)
  \/ \E status \in StatusInputs : CallTranslateStatus(status)
  \/ \E status \in CategoryInputs : CallGetStatusCategory(status)

SpecFn == InitFn /\ [][NextFn]_vars

(***************************************************************************)
(* The batch run concurrently.  The loop of POST awaits each trackShipment *)
(* before the next; here the same batch, once answered, is run again with  *)
(* one trackShipment call per element started together: each call runs up  *)
(* to its network call when the batch starts, the network calls complete   *)
(* in any order, each delivering what it delivered to the loop, and each   *)
(* call's result is stored at the element's index.                         *)
(***************************************************************************)
\* 'AB', 'bn1234567890 ' and '1234567890'
ParNumbers == {<<65, 66>>, <<98, 110>> \o DigitRun(10) \o <<32>>, DigitRun(10)}

ParBodies ==
  {[kind |-> "list", list |-> l] :
     l \in SeqsUpTo({Str(s) : s \in ParNumbers}, MaxBatch) \ {<<>>}}

\* the call for one element, up to its network call
ParTask(trackingNumber) ==
  LET normalizedNumber == NormalizedNumber(trackingNumber.s)
      courierCode == detectCourier(normalizedNumber)
      task == [st |-> "done", courier |-> courierCode,
               trackingNumber |-> normalizedNumber, result |-> Absent, at |-> 0]
  IN
  IF TooShort(normalizedNumber)
    THEN [task EXCEPT !.result = Some(InvalidFormatResult(normalizedNumber))]
  ELSE IF HasFetcher(courierCode) THEN [task EXCEPT !.st = "await"]
  ELSE [task EXCEPT !.result = Some(LocalResult(normalizedNumber))]

ParSettled(tasks) == \A i \in 1..Len(tasks) : tasks[i].st = "done"

\* the response of the loop is sent; the batch is started again, all calls at once
ParStart ==
  /\ pc = "done"
  /\ IsBatchAnswered
  /\ par = <<>>
  /\ LET list == request.body.list
         tasks == [i \in 1..Len(list) |-> ParTask(list[i])]
     IN /\ par' = tasks
        /\ pc' = IF ParSettled(tasks) THEN "par_done" ELSE "par_await"
  /\ UNCHANGED <<fnHandlerVarsButPar, fnVars>>

\* what the network call for element i delivered to the loop
DeliveredTo(i) ==
  (CHOOSE f \in {fetchLog[k] : k \in 1..Len(fetchLog)} : f.index = i).outcome

\* the network call of element i completes and its fetcher returns (the
\* fetchers catch what their try blocks throw)
ParFetched(i) ==
  /\ pc = "par_await"
  /\ par[i].st = "await"
  /\ LET done == FetcherFor(par[i].courier, par[i].trackingNumber, DeliveredTo(i))
         settled == Cardinality({j \in 1..Len(par) : par[j].at > 0})
         tasks == [par EXCEPT ![i] = [@ EXCEPT !.st = "done",
                                                !.result = Some(done.value),
                                                !.at = settled + 1]]
     IN /\ ~done.thrown
        /\ par' = tasks
        /\ pc' = IF ParSettled(tasks) THEN "par_done" ELSE "par_await"
  /\ UNCHANGED <<fnHandlerVarsButPar, fnVars>>

NextPar ==
  \/ \E body \in ParBodies : POST(body)
  \/ PostIterate
  \/ PostFetched
  \/ ParStart
  \/ \E i \in 1..Len(par) : ParFetched(i)

SpecPar == Init /\ [][NextPar]_vars

(***************************************************************************)
(* The page.  Its state is trackingNumbers, inputValue, results (here      *)
(* uiResults), loading and error; inFlight is the trackingNumbers the      *)
(* request in flight was sent with.  The input field, the Add button and   *)
(* the remove buttons are never disabled; the Track button is disabled     *)
(* while loading and while the list is empty.                              *)
(***************************************************************************)
\* ',' and '\n'
IsSeparator(c) == c \in {44, 10}

RECURSIVE SplitFrom(_, _, _)
\* the pieces of text from position i on, piece being the piece in progress
SplitFrom(text, i, piece) ==
  IF i > Len(text) THEN <<piece>>
  ELSE IF IsSeparator(text[i]) THEN <<piece>> \o SplitFrom(text, i + 1, <<>>)
  ELSE SplitFrom(text, i + 1, Append(piece, text[i]))

\* text.split(/[,\n]/)
Split(text) == SplitFrom(text, 1, <<>>)

\* array.includes(x)
ArrayIncludes(array, x) == \E i \in 1..Len(array) : array[i] = x

RECURSIVE Filter(_, _)
\* array.filter(keep), keep a set of the values kept
Filter(array, keep) ==
  IF array = <<>> THEN <<>>
  ELSE (IF array[1] \in keep THEN <<array[1]>> ELSE <<>>)
         \o Filter(Tail(array), keep)

\* '1234567890' and 'bn12345678'
UiAcsNumber == DigitRun(10)

UiBoxNowNumber == <<98, 110>> \o DigitRun(8)

\* the texts typed or pasted into the input field
InputTexts ==
  {<<>>,
   <<97, 98>>,
   UiAcsNumber,
   <<32>> \o UiBoxNowNumber \o <<32>>,
   UiAcsNumber \o <<44, 32>> \o UiBoxNowNumber,
   UiAcsNumber \o <<44>> \o UiAcsNumber,
   UiBoxNowNumber \o <<44, 44, 97, 98>>}

\* onChange of the input field
SetInputValue(text) ==
  /\ inputValue' = text
  /\ UNCHANGED <<trackingNumbers, uiResults, loading, error, inFlight>>
  /\ UNCHANGED uiOtherVars

\* addTrackingNumber
addTrackingNumber ==
  /\ LET pieces == Split(inputValue)
         mapped == [i \in 1..Len(pieces) |-> ToUpperCase(Trim(pieces[i]))]
         numbers ==
           Filter(mapped,
                  {mapped[i] : i \in {j \in 1..Len(mapped) :
                     /\ Len(mapped[j]) >= 8
                     /\ ~ArrayIncludes(trackingNumbers, mapped[j])}})
     IN IF Len(numbers) > 0
          THEN /\ trackingNumbers' = trackingNumbers \o numbers
               /\ inputValue' = <<>>
          ELSE UNCHANGED <<trackingNumbers, inputValue>>
  /\ UNCHANGED <<uiResults, loading, error, inFlight>>
  /\ UNCHANGED uiOtherVars

\* removeTrackingNumber
removeTrackingNumber(number) ==
  /\ ArrayIncludes(trackingNumbers, number)
  /\ trackingNumbers' =
       Filter(trackingNumbers,
              {trackingNumbers[i] : i \in 1..Len(trackingNumbers)} \ {number})
  /\ uiResults' =
       Filter(uiResults,
              {uiResults[i] : i \in {j \in 1..Len(uiResults) :
                 uiResults[j].trackingNumber # number}})
  /\ UNCHANGED <<inputValue, loading, error, inFlight>>
  /\ UNCHANGED uiOtherVars

\* fetchTrackingData up to the await of fetch: the Track button is clicked
fetchTrackingData ==
  /\ ~loading
  /\ Len(trackingNumbers) # 0
  /\ loading' = TRUE
  /\ error' = Absent
  /\ inFlight' = trackingNumbers
  /\ UNCHANGED <<trackingNumbers, inputValue, uiResults>>
  /\ UNCHANGED uiOtherVars

\* the results POST can push for one element of the list the page sent
ElementResults(trackingNumber) ==
  LET normalizedNumber == NormalizedNumber(trackingNumber)
      courierCode == detectCourier(normalizedNumber)
  IN
  IF TooShort(normalizedNumber) THEN {InvalidFormatResult(normalizedNumber)}
  ELSE IF HasFetcher(courierCode)
    THEN {FetcherFor(courierCode, normalizedNumber, o).value :
            o \in Outcomes(courierCode, normalizedNumber)}
  ELSE {LocalResult(normalizedNumber)}

RECURSIVE BatchResults(_)
\* the results lists POST can answer the list with
BatchResults(list) ==
  IF list = <<>> THEN {<<>>}
  ELSE {<<r>> \o rs : r \in ElementResults(list[1]), rs \in BatchResults(Tail(list))}

\* the ways the request of the page ends: fetch rejects, the server answers
\* with an error status and no error text, or it answers with results
FetchFailures == {"Failed to fetch", "Failed to fetch tracking data"}

\* fetchTrackingData from the await on: the response, the catch and the finally
fetchResponded ==
  /\ loading
  /\ \/ \E rs \in BatchResults(inFlight) :
          /\ uiResults' = rs
          /\ error' = error
     \/ \E msg \in FetchFailures :
          /\ error' = Some(msg)
          /\ uiResults' = uiResults
  /\ loading' = FALSE
  /\ inFlight' = <<>>
  /\ UNCHANGED <<trackingNumbers, inputValue>>
  /\ UNCHANGED uiOtherVars

NextUI ==
  \/ \E text \in InputTexts : SetInputValue(text)
  \/ addTrackingNumber
  \/ \E number \in {trackingNumbers[i] : i \in 1..Len(trackingNumbers)} :
       removeTrackingNumber(number)
  \/ fetchTrackingData
  \/ fetchResponded

SpecUI == Init /\ [][NextUI]_vars

(***************************************************************************)
(* Properties.                                                             *)
(***************************************************************************)
IsPost == request.method = "POST"

IsGet == request.method = "GET"

PostList == request.body.list

AllStrings(list) == \A i \in 1..Len(list) : list[i].t = "string"

\* the results a response or the loop holds
Produced == {results[i] : i \in 1..Len(results)}
              \cup {response.results[i] : i \in 1..Len(response.results)}

\* C1: a POST of a non-empty list of strings answers with a results list of the
\* same length whose i-th result carries the trimmed, upper-cased i-th input;
\* while the loop runs, the results pushed so far are those of the inputs
\* before the loop's position, in order.
BatchResultsAligned ==
  (IsPost /\ request.body.kind = "list" /\ Len(PostList) > 0
     /\ AllStrings(PostList))
  => /\ \A i \in 1..Len(results) :
          results[i].trackingNumber = ToUpperCase(Trim(PostList[i].s))
     /\ pc \in {"post_loop", "post_await"} => Len(results) = idx - 1
     /\ pc = "done" =>
          /\ response.kind = "results"
          /\ Len(response.results) = Len(PostList)
          /\ \A i \in 1..Len(PostList) :
               response.results[i].trackingNumber
                 = ToUpperCase(Trim(PostList[i].s))

\* a POST of two different numbers, the first of them padded, has answered
BatchResultsAlignedWitness ==
  /\ pc = "done"
  /\ IsPost
  /\ Len(PostList) = 2
  /\ AllStrings(PostList)
  /\ Trim(PostList[1].s) # PostList[1].s
  /\ ToUpperCase(Trim(PostList[1].s)) # ToUpperCase(Trim(PostList[2].s))
  /\ Len(response.results) = 2

\* C2: a POST of a non-empty list answers with one result per element,
\* whatever the elements are.
EveryElementYieldsResult ==
  (pc = "done" /\ IsPost /\ request.body.kind = "list" /\ Len(PostList) > 0)
  => /\ response.kind = "results"
     /\ Len(response.results) = Len(PostList)

\* the result of a too-short tracking number, as C3 states it
IsInvalidFormat(r) ==
  /\ r.success = FALSE
  /\ r.errorMessage = Some("Invalid tracking number format")

\* C3: a tracking number shorter than 8 after trim and upper-casing, sent
\* through POST or GET, yields success=false with the message "Invalid
\* tracking number format", and no network call is made for it.
ShortNumberRejected ==
  /\ (pc = "done" /\ IsPost /\ response.kind = "results") =>
       \A i \in 1..Len(PostList) :
         Len(ToUpperCase(Trim(PostList[i].s))) < 8 =>
           /\ IsInvalidFormat(response.results[i])
           /\ \A k \in 1..Len(netCalls) : netCalls[k].index # i
  /\ (IsGet /\ request.number # Absent
        /\ Len(ToUpperCase(Trim(request.number[1]))) < 8
        /\ request.number[1] # <<>>) =>
       /\ netCalls = <<>>
       /\ pc = "done" =>
            /\ response.kind = "result"
            /\ IsInvalidFormat(response.results[1])

\* the network call rejects, or the response cannot be parsed or mapped
CallFails(o) == o.kind = "reject" \/ o.text.json \in {"invalid", "null"}

\* C4: a fetcher never raises, and when the network call rejects or the
\* response cannot be parsed or mapped it returns success=false,
\* statusCategory "error", no events and a non-empty errorMessage.
FetcherNeverRaises ==
  \A k \in 1..Len(fetchLog) :
    LET f == fetchLog[k]
        r == f.completion.value
    IN /\ ~f.completion.thrown
       /\ CallFails(f.outcome) =>
            /\ r.success = FALSE
            /\ r.statusCategory = "error"
            /\ r.events = <<>>
            /\ r.errorMessage # Absent
            /\ r.errorMessage[1] # ""

\* both fetchers have returned from a failed call
FetcherNeverRaisesWitness ==
  /\ \E k \in 1..Len(fetchLog) :
       fetchLog[k].courier = "elta" /\ fetchLog[k].outcome.kind = "reject"
  /\ \E k \in 1..Len(fetchLog) :
       /\ fetchLog[k].courier = "box_now"
       /\ fetchLog[k].outcome.kind = "response"
       /\ fetchLog[k].outcome.text.json = "invalid"

\* the tracking number of the request that element i carries
InputAt(i) == IF IsPost THEN PostList[i].s ELSE request.number[1]

\* C5: on every path from POST and GET the number passed to a fetcher, and
\* the trackingNumber of every result returned, is the trimmed, upper-cased
\* input.
NumbersNormalizedEverywhere ==
  /\ \A k \in 1..Len(netCalls) :
       netCalls[k].trackingNumber
         = ToUpperCase(Trim(InputAt(netCalls[k].index)))
  /\ (pc = "done" /\ response.kind \in {"results", "result"}) =>
       \A i \in 1..Len(response.results) :
         response.results[i].trackingNumber = ToUpperCase(Trim(InputAt(i)))

\* the registry order C6 states
ClaimedOrder ==
  <<"elta", "acs", "speedex", "box_now", "courier_center", "geniki">>

\* a rule of carrier c matches the full string
CarrierMatches(c, tn) ==
  \E k \in 1..Len(COURIERS[c].patterns) : Test(COURIERS[c].patterns[k], tn)

\* the positions in the claimed order of the carriers with a matching rule
Hits(tn) == {k \in 1..Len(ClaimedOrder) : CarrierMatches(ClaimedOrder[k], tn)}

AllDigits(tn, n) == Len(tn) = n /\ \A i \in 1..n : tn[i] \in 48..57

\* C6: detectCourier returns the earliest carrier, in the order elta, acs,
\* speedex, box_now, courier_center, geniki, with a rule matching the
\* (trimmed, upper-cased) string, and null only when no rule matches; ten
\* digits are acs and twelve digits are speedex.
DetectFirstMatchWins ==
  fnName = "detectCourier" =>
    LET tn == ToUpperCase(Trim(fnArg))
        hits == Hits(tn)
    IN /\ fnCourier = "null" <=> hits = {}
       /\ \A k \in hits :
            (\A j \in hits : k <= j) => fnCourier = ClaimedOrder[k]
       /\ AllDigits(tn, 10) => fnCourier = "acs"
       /\ AllDigits(tn, 12) => fnCourier = "speedex"

\* detectCourier has decided between several carriers whose rules match
DetectFirstMatchWinsWitness ==
  /\ fnName = "detectCourier"
  /\ fnArg = ToUpperCase(Trim(fnArg))
  /\ Cardinality(Hits(fnArg)) >= 2
  /\ fnCourier # "geniki"

\* the formats of the README table, in the table's order
README_FORMATS ==
  [elta |-> << <<Lit(83), Lit(69), Digits(9, 9), Lit(71), Lit(82)>> >>,
   acs |-> << <<Digits(10, 10)>> >>,
   speedex |-> << <<Lit(83), Lit(80), Digits(8, 10)>>,
                  <<Digits(12, 12)>>,
                  <<Digits(9, 9), Upper(2, 2)>> >>,
   box_now |-> << <<Lit(66), Lit(78), Digits(8, 10)>> >>,
   courier_center |-> << <<Lit(67), Lit(67), Digits(8, 10)>> >>,
   geniki |-> << <<Upper(2, 2), Digits(9, 11)>>, <<Digits(10, 12)>> >>]

\* the string has one of the formats the README lists for carrier c
ReadmeFormat(c, tn) ==
  \E k \in 1..Len(README_FORMATS[c]) : Test(README_FORMATS[c][k], tn)

\* C7 as stated: a tracking number in a format the README lists for a
\* courier is detected as that courier.
ReadmeFormatsDetected ==
  fnName = "detectCourier" =>
    \A k \in 1..Len(ClaimedOrder) :
      ReadmeFormat(ClaimedOrder[k], fnArg) => fnCourier = ClaimedOrder[k]

\* C7, amended: a tracking number in a format the README lists for a courier,
\* and in no format it lists for a courier earlier in the table, is detected
\* as that courier.
ReadmeFormatsDetectedFirstListed ==
  fnName = "detectCourier" =>
    \A k \in 1..Len(ClaimedOrder) :
      (/\ ReadmeFormat(ClaimedOrder[k], fnArg)
       /\ \A j \in 1..(k - 1) : ~ReadmeFormat(ClaimedOrder[j], fnArg))
      => fnCourier = ClaimedOrder[k]

\* detectCourier has been applied to eleven digits, which the README lists
\* for geniki alone
ReadmeFormatsDetectedWitness ==
  /\ fnName = "detectCourier"
  /\ AllDigits(fnArg, 11)
  /\ ReadmeFormat("geniki", fnArg)
  /\ \A j \in 1..(Len(ClaimedOrder) - 1) : ~ReadmeFormat(ClaimedOrder[j], fnArg)
  /\ fnCourier = "geniki"

\* C8: a tracking number detected as acs, speedex, courier_center or geniki
\* yields success=false, status "Not Implemented", statusCategory "error", no
\* events and an errorMessage, with that carrier's id, name and colour, and
\* no network call is made for it.
UnimplementedCarrierResult ==
  \A r \in Produced :
    LET c == detectCourier(r.trackingNumber) IN
    c \in {"acs", "speedex", "courier_center", "geniki"} =>
      /\ r.success = FALSE
      /\ r.status = S_NotImplemented
      /\ r.statusCategory = "error"
      /\ r.events = <<>>
      /\ r.errorMessage # Absent
      /\ r.errorMessage[1] # ""
      /\ r.courier = c
      /\ r.courierName = COURIERS[c].name
      /\ r.courierColor = COURIERS[c].color
      /\ \A k \in 1..Len(netCalls) :
           netCalls[k].trackingNumber # r.trackingNumber

\* a response carries the result of a number detected as geniki
UnimplementedCarrierResultWitness ==
  /\ pc = "done"
  /\ \E i \in 1..Len(response.results) :
       /\ response.results[i].courier = "geniki"
       /\ response.results[i].status = S_NotImplemented

\* the carrier answered, and reports no record for the number asked for
NoRecord(f) ==
  /\ f.outcome.kind = "response"
  /\ f.outcome.text.json = "object"
  /\ IF f.courier = "elta"
       THEN \/ f.outcome.text.status # 1
            \/ ~f.outcome.text.hasResult
            \/ f.outcome.text.key # f.trackingNumber
            \/ f.outcome.text.entryStatus # 1
       ELSE f.outcome.text.data = <<>>

\* C9: when the carrier answers and reports no record, the fetcher returns
\* success=true, status "Not Found", statusCategory "unknown", no events, no
\* latestEvent and no errorMessage.
ConfirmedAbsence ==
  \A k \in 1..Len(fetchLog) :
    LET f == fetchLog[k]
        r == f.completion.value
    IN NoRecord(f) =>
         /\ ~f.completion.thrown
         /\ r.success = TRUE
         /\ r.status = S_NotFound
         /\ r.statusCategory = "unknown"
         /\ r.events = <<>>
         /\ r.latestEvent = Absent
         /\ r.errorMessage = Absent

\* ELTA answered, behind a byte-order mark, with no record for the number
ConfirmedAbsenceWitness ==
  \E k \in 1..Len(fetchLog) :
    /\ NoRecord(fetchLog[k])
    /\ fetchLog[k].courier = "elta"
    /\ fetchLog[k].outcome.text.bom
    /\ fetchLog[k].completion.value.status = S_NotFound

\* the table positions whose phrase the status holds, case ignored
PhraseHits(status) ==
  {k \in 1..Len(STATUS_TRANSLATIONS) :
     Includes(ToLowerCase(status), ToLowerCase(STATUS_TRANSLATIONS[k].greek))}

\* C10: translateStatus returns the English value of the first table entry
\* whose phrase the status equals or holds, case ignored, and the status
\* unchanged when there is none; 'Αποστολή παραδόθηκε' gives 'Delivered'.
TranslateFirstEntryWins ==
  fnName = "translateStatus" =>
    LET hits == PhraseHits(fnArg) IN
    /\ hits = {} => fnStatus = fnArg
    /\ \A k \in hits :
         (\A j \in hits : k <= j) => fnStatus = STATUS_TRANSLATIONS[k].english
    /\ fnArg = G_Paradothike => fnStatus = S_Delivered

\* translateStatus has been applied to a status in capitals that holds the
\* phrases of two table entries
TranslateFirstEntryWinsWitness ==
  /\ fnName = "translateStatus"
  /\ fnArg # ToLowerCase(fnArg)
  /\ Cardinality(PhraseHits(fnArg)) >= 2
  /\ fnStatus = S_Delivered

\* the text contains, once lower-cased, one of the keywords
HasKeyword(text, keywords) ==
  \E k \in keywords : Includes(ToLowerCase(text), k)

\* C11: getStatusCategory has a value for every status, decided by the keywords
\* the lower-cased status contains, the delivered keywords before the transit
\* keywords before the created keywords: a status with a delivered keyword is
\* "delivered" whatever else it contains, one with no keyword is "unknown", and
\* the value is never "error"
CategoryByPriority ==
  fnName = "getStatusCategory" =>
    /\ fnCategory \in {"delivered", "in_transit", "created", "unknown"}
    /\ fnCategory # "error"
    /\ HasKeyword(fnArg, DeliveredKeywords) => fnCategory = "delivered"
    /\ (/\ ~HasKeyword(fnArg, DeliveredKeywords)
        /\ HasKeyword(fnArg, TransitKeywords)) => fnCategory = "in_transit"
    /\ (/\ ~HasKeyword(fnArg, DeliveredKeywords)
        /\ ~HasKeyword(fnArg, TransitKeywords)
        /\ HasKeyword(fnArg, CreatedKeywords)) => fnCategory = "created"
    /\ ~HasKeyword(fnArg, Keywords) => fnCategory = "unknown"
    /\ fnArg = ToUpperCase(K_paradothik) => fnCategory = "delivered"
    /\ fnArg = ToUpperCase(K_transit) => fnCategory = "in_transit"

\* a status with a transit keyword before a delivered keyword is "delivered"
CategoryByPriorityWitness ==
  /\ fnName = "getStatusCategory"
  /\ fnArg = K_metaforas \o <<32>> \o K_delivered
  /\ fnCategory = "delivered"

\* the results the fetchers returned
Fetched ==
  {fetchLog[k].completion.value :
     k \in {j \in 1..Len(fetchLog) : ~fetchLog[j].completion.thrown}}

\* C12: in every result, whichever path produced it, latestEvent is present
\* exactly when events is non-empty, and is then the first of the events.
LatestEventIsFirst ==
  \A r \in Produced \cup Fetched :
    /\ r.latestEvent = Absent <=> r.events = <<>>
    /\ r.events # <<>> => r.latestEvent = Some(r.events[1])

\* a result with several events, the first of them unlike the last
LatestEventIsFirstWitness ==
  \E r \in Produced :
    /\ Len(r.events) >= 2
    /\ r.events[1] # r.events[Len(r.events)]
    /\ r.latestEvent = Some(r.events[1])

\* a fetcher call that returned the result of a record the carrier reported
WithRecord(f) ==
  /\ ~f.completion.thrown
  /\ f.completion.value.success
  /\ ~NoRecord(f)

\* C13: for every successful fetch with a record, the status is the translation
\* of the carrier's own status (ELTA: the status of the most recent event; Box
\* Now: the state of the parcel) and statusCategory is getStatusCategory of the
\* result's status, for ELTA and for Box Now.
CategoryIsClassificationOfStatus ==
  \A k \in 1..Len(fetchLog) :
    LET f == fetchLog[k]
        r == f.completion.value
    IN WithRecord(f) =>
         /\ (f.courier = "elta" /\ f.outcome.text.events # <<>>) =>
              r.status = translateStatus(f.outcome.text.events[1].status)
         /\ f.courier = "box_now" =>
              r.status = translateStatus(f.outcome.text.data[1].state)
         /\ r.statusCategory = getStatusCategory(r.status)

\* C15: in every result, whichever path produced it, success is false exactly
\* when statusCategory is "error" and exactly when an errorMessage is present.
FailureMarkedThreeWays ==
  \A r \in Produced \cup Fetched :
    /\ r.success = FALSE <=> r.statusCategory = "error"
    /\ r.success = FALSE <=> r.errorMessage # Absent

\* one response holds a failed result and a successful one
FailureMarkedThreeWaysWitness ==
  /\ \E r \in Produced :
       r.success = FALSE /\ r.statusCategory = "error" /\ r.errorMessage # Absent
  /\ \E r \in Produced :
       r.success = TRUE /\ r.statusCategory # "error" /\ r.errorMessage = Absent

\* C18: every entry of the phrase table is effective: translateStatus of the
\* phrase of an entry is the English value the entry declares.
EveryPhraseEffective ==
  fnName = "translateStatus" =>
    \A k \in 1..Len(STATUS_TRANSLATIONS) :
      fnArg = STATUS_TRANSLATIONS[k].greek =>
        fnStatus = STATUS_TRANSLATIONS[k].english

DisplayedResultsInList ==
  \A i \in 1..Len(uiResults) :
    ArrayIncludes(trackingNumbers, uiResults[i].trackingNumber)

\* C17: on the page, the list holds no number twice, and every entry is
\* trimmed, upper-cased and at least 8 characters long.
ListDistinctAndNormalized ==
  /\ \A i, j \in 1..Len(trackingNumbers) :
       trackingNumbers[i] = trackingNumbers[j] => i = j
  /\ \A i \in 1..Len(trackingNumbers) :
       /\ Trim(trackingNumbers[i]) = trackingNumbers[i]
       /\ ToUpperCase(trackingNumbers[i]) = trackingNumbers[i]
       /\ Len(trackingNumbers[i]) >= 8

=============================================================================
